---- MODULE Spec2Model ----
(***************************************************************************)
(* A model of packages/scraper/scraper/scrape.py: the resumable crawl loop *)
(* crawl_site, the retrying fetcher fetch_page, the stats aggregator       *)
(* update_stats and the JSON/text persistence (save_state, load_state,     *)
(* save_stats, load_stats, save_dates_titles, save_errors_404).            *)
(*                                                                         *)
(* Strings that the code slices or parses are modelled structurally:       *)
(*   - a URL is a record [base, query]; query is the sequence of           *)
(*     <<name, value>> pairs of its query string.  Its text is `base` when *)
(*     the query is empty and base?name=value&... otherwise;               *)
(*   - a date is the sequence of its characters, so date[:4] is a prefix.  *)
(***************************************************************************)
EXTENDS Integers, Sequences, FiniteSets, TLC

VARIABLES
    pc,                 \* position of the process in crawl_site
    urls_to_crawl,      \* CrawlState.urls_to_crawl (in memory)
    crawled_urls,       \* CrawlState.crawled_urls  (in memory)
    errors_404,         \* CrawlState.errors_404    (in memory)
    stats,              \* Stats (in memory)
    current_url,        \* local current_url of crawl_site
    soup,               \* local soup of crawl_site (the fetched document)
    attempt,            \* tenacity retry_state.attempt_number of the running fetch_page call
    outcome,            \* tenacity retry_state.outcome: result of the last finished attempt
    backoff,            \* value of wait_exponential computed before the current attempt
    slept,              \* seconds slept between the previous attempt and the current one
    state_file,         \* crawl_state.json
    stats_file,         \* crawl_stats.json
    dates_titles_file,  \* post_dates_titles.txt
    errors_file,        \* errors_404.txt
    restarts,           \* number of times the process was stopped and started again
    boundary,           \* history: CrawlState at the last completed loop iteration
    site,               \* the web site, when the run is against a fixed site
    processed           \* history: the keys of the success steps of all runs so far

vars == <<pc, urls_to_crawl, crawled_urls, errors_404, stats, current_url, soup,
          attempt, outcome, backoff, slept, state_file, stats_file,
          dates_titles_file, errors_file, restarts, boundary, site, processed>>

memory == <<urls_to_crawl, crawled_urls, errors_404, stats, current_url, soup>>
fetcher == <<attempt, outcome, backoff, slept>>
files == <<state_file, stats_file, dates_titles_file, errors_file>>

----------------------------------------------------------------------------
(* Bounds of the model *)

MaxLinks == 2          \* follow-up links on one page
MaxPosts == 1          \* posts on one page
MaxRestarts == 1       \* stop/start cycles of the process
RetryAfterSeconds == 120   \* the integer value of a Retry-After header

----------------------------------------------------------------------------
(* Generic helpers *)

Range(s) == {s[i] : i \in 1..Len(s)}

Count(x, s) == Cardinality({i \in 1..Len(s) : s[i] = x})

SeqsUpTo(S, n) == UNION {[1..k -> S] : k \in 0..n}

\* Python slice s[:n]
Prefix(s, n) == SubSeq(s, 1, IF Len(s) < n THEN Len(s) ELSE n)

Max2(a, b) == IF a >= b THEN a ELSE b
Min2(a, b) == IF a <= b THEN a ELSE b

RECURSIVE Pow(_, _)
Pow(b, e) == IF e = 0 THEN 1 ELSE b * Pow(b, e - 1)

RECURSIVE SumOver(_, _)
\* sum(d.values()) of a dict d, over the key set ks
SumOver(d, ks) ==
    IF ks = {} THEN 0
    ELSE LET k == CHOOSE x \in ks : TRUE IN d[k] + SumOver(d, ks \ {k})

RECURSIVE SetToList(_)
\* list(a_set): some enumeration of the set
SetToList(S) ==
    IF S = {} THEN <<>>
    ELSE LET x == CHOOSE y \in S : TRUE IN <<x>> \o SetToList(S \ {x})

----------------------------------------------------------------------------
(* URLs and extract_unique_part *)

Url(b, q) == [base |-> b, query |-> q]

start_url == Url("h", <<>>)                       \* "h": no m parameter, key ""
UrlB == Url("g", <<<<"p", "1">>, <<"m", "h">>>>)  \* "g?p=1&m=h": key "h"

Urls == {start_url, UrlB}

\* urllib.parse.parse_qs(query).get(name): the non-blank values of `name`, in order
parse_qs(query, name) ==
    LET hits == SelectSeq(query, LAMBDA p : p[1] = name /\ p[2] # "")
    IN  [i \in 1..Len(hits) |-> hits[i][2]]

extract_unique_part(url) ==
    LET m == parse_qs(url.query, "m")
    IN  IF Len(m) > 0 THEN m[1] ELSE ""

\* s == url for a str s and the text of a URL (s holds no '?')
TextEquals(s, url) == url.query = <<>> /\ url.base = s

\* `s in urls_to_crawl` for a str s and the list of URL texts
InUrlList(s, urls) == \E i \in 1..Len(urls) : TextEquals(s, urls[i])

----------------------------------------------------------------------------
(* Posts and Stats *)

Date2019 == <<"2", "0", "1", "9", "-", "0", "3", "-", "0", "1">>   \* "2019-03-01"
NoDate == <<>>                                                     \* ""
Unknown == <<"u", "n", "k", "n", "o", "w", "n">>                   \* "unknown"

\* what extract_posts reads from one <article>: the date of its <time> tag and its title
Articles == {[date |-> Date2019, title |-> "a"], [date |-> NoDate, title |-> "b"]}

\* the Post that extract_posts builds from one article
Post(article) ==
    [title |-> article.title,
     entry_date |-> article.date,
     year |-> IF article.date # <<>> THEN Prefix(article.date, 4) ELSE Unknown]

extract_posts(doc) == [i \in 1..Len(doc.posts) |-> Post(doc.posts[i])]

extract_archive_links(doc) == doc.links

EmptyDict == [y \in {} |-> 0]

EmptyStats == [articles_per_year |-> EmptyDict, total_articles |-> 0, articles |-> <<>>]

\* the body of the loop of update_stats, for one post
AddPost(st, post) ==
    LET d0 == IF post.year \notin DOMAIN st.articles_per_year
              THEN st.articles_per_year @@ (post.year :> 0)
              ELSE st.articles_per_year
    IN  [st EXCEPT !.articles_per_year = [d0 EXCEPT ![post.year] = @ + 1],
                   !.articles = Append(@, [date |-> post.entry_date, title |-> post.title])]

RECURSIVE AddPosts(_, _)
AddPosts(st, posts) ==
    IF posts = <<>> THEN st ELSE AddPosts(AddPost(st, Head(posts)), Tail(posts))

\* update_stats counting one per call instead of one per post
update_stats_CountsCalls(st, posts) ==
    [AddPosts(st, posts) EXCEPT !.total_articles = @ + 1]

update_stats(st, posts) ==
    [AddPosts(st, posts) EXCEPT !.total_articles = @ + Len(posts)]

\* datetime.fromisoformat(date) succeeds
IsIsoFormat(date) == Len(date) >= 10 /\ date[5] = "-" /\ date[8] = "-"

----------------------------------------------------------------------------
(* The frontier *)

\* EnqueueLink putting the link at the head of the list
EnqueueLink_AtFront(pending, crawled, link) ==
    LET unique_link_part == extract_unique_part(link)
    IN  IF unique_link_part \notin crawled /\ ~InUrlList(unique_link_part, pending)
        THEN <<link>> \o pending
        ELSE pending

\* lines 334-338 for one link
EnqueueLink(pending, crawled, link) ==
    LET unique_link_part == extract_unique_part(link)
    IN  IF unique_link_part \notin crawled /\ ~InUrlList(unique_link_part, pending)
        THEN Append(pending, link)
        ELSE pending

RECURSIVE EnqueueLinks(_, _, _)
\* lines 332-338
EnqueueLinks(pending, crawled, links) ==
    IF links = <<>> THEN pending
    ELSE EnqueueLinks(EnqueueLink(pending, crawled, Head(links)), crawled, Tail(links))

----------------------------------------------------------------------------
(* Documents and the outcomes of one HTTP GET *)

Documents == {[links |-> l, posts |-> p] :
                 l \in SeqsUpTo(Urls, MaxLinks), p \in SeqsUpTo(Articles, MaxPosts)}

NoSoup == [links |-> <<>>, posts |-> <<>>]
NoUrl == Url("", <<>>)

HTTP_NOT_FOUND == 404

Exc(k, st, resp, hdr) == [kind |-> k, status |-> st, response |-> resp, retry_after |-> hdr]

NoOutcome == Exc("none", 0, FALSE, FALSE)
Returned == Exc("returned", 0, FALSE, FALSE)

\* the exceptions requests.get / raise_for_status can raise in fetch_page
Failures ==
    {Exc("HTTPError", HTTP_NOT_FOUND, TRUE, FALSE)}
    \cup {Exc("HTTPError", 503, TRUE, h) : h \in BOOLEAN}
    \cup {Exc("TooManyRedirects", 0, TRUE, TRUE)}
    \cup {Exc("ConnectionError", 0, FALSE, FALSE),
          Exc("Timeout", 0, FALSE, FALSE),
          Exc("MaxRetryError", 0, FALSE, FALSE)}

\* isinstance(e, requests.RequestException)
IsRequestException(e) ==
    e.kind \in {"HTTPError", "TooManyRedirects", "ConnectionError", "Timeout"}

IsHTTPError(e) == e.kind = "HTTPError"

\* lines 123-126: the attempt returns None
ReturnsNone(e) == IsHTTPError(e) /\ e.status = HTTP_NOT_FOUND

----------------------------------------------------------------------------
(* The retry policy of fetch_page (the tenacity decorator, lines 107-115) *)

StopAfterAttempt == 5
WaitMultiplier == 5
WaitMin == 30
WaitMax == 300
ExpBase == 2

\* retry=retry_if_exception_type(RequestException) & retry_if_not_exception_type(HTTPError)
retry_predicate(e) == IsRequestException(e) /\ ~IsHTTPError(e)

stop_after_attempt(attempt_number) == attempt_number >= StopAfterAttempt

\* wait_exponential without the lower clamp min=30
wait_exponential_NoMin(attempt_number) ==
    Min2(WaitMultiplier * Pow(ExpBase, attempt_number - 1), WaitMax)

\* wait_exponential(multiplier=5, min=30, max=300) after attempt attempt_number
wait_exponential(attempt_number) ==
    Max2(Max2(0, WaitMin), Min2(WaitMultiplier * Pow(ExpBase, attempt_number - 1), WaitMax))

\* seconds slept by the before_sleep hook wait_if_retry_after
wait_if_retry_after(e) ==
    IF IsRequestException(e) /\ e.response /\ e.retry_after
    THEN RetryAfterSeconds
    ELSE 0

\* what tenacity sleeps in all before the next attempt: the hook, then its own wait
SleepBeforeRetry(e, attempt_number) ==
    wait_if_retry_after(e) + wait_exponential(attempt_number)

----------------------------------------------------------------------------
(* Persistence: what the files hold *)

EmptyState == [urls_to_crawl |-> <<>>, crawled_urls |-> {}, errors_404 |-> <<>>]

\* the JSON text that save_state dumps: asdict(state) with crawled_urls as a list
StateJson(pending, crawled, errors) ==
    [urls_to_crawl |-> pending, crawled_urls |-> SetToList(crawled), errors_404 |-> errors]

\* CrawlState(**state_dict) of load_state, the list converted back to a set
StateFromJson(json) ==
    [urls_to_crawl |-> json.urls_to_crawl,
     crawled_urls |-> Range(json.crawled_urls),
     errors_404 |-> json.errors_404]

\* a file is absent, holds what was last dumped, or was cut short while being written
AbsentFile(content) == [status |-> "absent", content |-> content]
WrittenFile(content) == [status |-> "written", content |-> content]
TornFile(content) == [status |-> "torn", content |-> content]

NoStateFile == AbsentFile(StateJson(<<>>, {}, <<>>))
NoStatsFile == AbsentFile(EmptyStats)

\* load_state(): lines 233-240 (defined when the file is absent or parses)
load_state == IF state_file.status = "written"
              THEN StateFromJson(state_file.content)
              ELSE EmptyState

\* load_stats(): lines 249-255
load_stats == IF stats_file.status = "written" THEN stats_file.content ELSE EmptyStats

\* lines 295-296
Seeded(pending) == IF pending = <<>> THEN <<start_url>> ELSE pending

\* the lines save_dates_titles writes before fromisoformat raises, if it does
RECURSIVE DatedPrefix(_)
DatedPrefix(articles) ==
    IF articles = <<>> \/ ~IsIsoFormat(Head(articles).date) THEN <<>>
    ELSE <<Head(articles)>> \o DatedPrefix(Tail(articles))

DatesTitles(st) == [summary |-> st.articles_per_year, lines |-> DatedPrefix(st.articles)]

\* save_dates_titles(stats) runs to its end
AllDatesParse(st) == \A i \in 1..Len(st.articles) : IsIsoFormat(st.articles[i].date)

Snapshot(pending, crawled) == [urls_to_crawl |-> pending, crawled_urls |-> crawled]

----------------------------------------------------------------------------
(* The state machine *)

\* Positions in crawl_site.  The two persist sequences are different lines of the code:
\* "fail_*" is lines 313-316 (the except branch), "ok_*" is lines 341-344.
FailPath == {"fail_save_state", "fail_save_stats", "fail_save_dates_titles",
             "fail_save_errors_404"}
OkPath == {"ok_save_state", "ok_save_stats", "ok_save_dates_titles", "ok_save_errors_404"}

AtSaveState == pc \in {"fail_save_state", "ok_save_state"}
AtSaveStats == pc \in {"fail_save_stats", "ok_save_stats"}
AtSaveDatesTitles == pc \in {"fail_save_dates_titles", "ok_save_dates_titles"}
AtSaveErrors404 == pc \in {"fail_save_errors_404", "ok_save_errors_404"}

\* the statement after the persist call at position p
AfterSave(p) ==
    CASE p = "fail_save_state" -> "fail_save_stats"
      [] p = "fail_save_stats" -> "fail_save_dates_titles"
      [] p = "fail_save_dates_titles" -> "fail_save_errors_404"
      [] p = "ok_save_state" -> "ok_save_stats"
      [] p = "ok_save_stats" -> "ok_save_dates_titles"
      [] p = "ok_save_dates_titles" -> "ok_save_errors_404"

NoSite == [u \in Urls |-> [kind |-> "notfound", doc |-> NoSoup]]

IdleFetcher ==
    /\ attempt = 0
    /\ outcome = NoOutcome
    /\ backoff = 0
    /\ slept = 0

ClearedMemory ==
    /\ urls_to_crawl = <<>>
    /\ crawled_urls = {}
    /\ errors_404 = <<>>
    /\ stats = EmptyStats
    /\ current_url = NoUrl
    /\ soup = NoSoup

NoFiles ==
    /\ state_file = NoStateFile
    /\ stats_file = NoStatsFile
    /\ dates_titles_file = AbsentFile(DatesTitles(EmptyStats))
    /\ errors_file = AbsentFile(<<>>)

Init ==
    /\ pc = "start"
    /\ ClearedMemory
    /\ IdleFetcher
    /\ NoFiles
    /\ restarts = 0
    /\ boundary = Snapshot(<<>>, {})
    /\ site = NoSite
    /\ processed = {}

\* the retry_state of a fetch_page call ends with the call
FetcherReturns ==
    /\ attempt' = 0
    /\ outcome' = NoOutcome
    /\ backoff' = 0
    /\ slept' = 0

\* end of a loop iteration, leaving CrawlState (pending, crawled): its locals are dead
EndIteration(pending, crawled) ==
    /\ pc' = "again"
    /\ current_url' = NoUrl
    /\ soup' = NoSoup
    /\ boundary' = Snapshot(pending, crawled)

\* Load taking a state file that does not parse for an empty state
Load_ResetsOnTornFile ==
    /\ pc = "start"
    /\ pc' = "seed"
    /\ urls_to_crawl' = load_state.urls_to_crawl
    /\ crawled_urls' = load_state.crawled_urls
    /\ errors_404' = load_state.errors_404
    /\ stats' = load_stats
    /\ UNCHANGED <<current_url, soup, fetcher, files, restarts, boundary, site, processed>>

\* lines 293-294: load_state() and load_stats(); json.load raises on a torn file
Load ==
    /\ pc = "start"
    /\ IF state_file.status = "torn" \/ stats_file.status = "torn"
       THEN /\ pc' = "aborted"
            /\ UNCHANGED <<urls_to_crawl, crawled_urls, errors_404, stats>>
       ELSE /\ pc' = "seed"
            /\ urls_to_crawl' = load_state.urls_to_crawl
            /\ crawled_urls' = load_state.crawled_urls
            /\ errors_404' = load_state.errors_404
            /\ stats' = load_stats
    /\ UNCHANGED <<current_url, soup, fetcher, files, restarts, boundary, site, processed>>

\* lines 295-296
Seed ==
    /\ pc = "seed"
    /\ urls_to_crawl' = Seeded(urls_to_crawl)
    /\ pc' = "entry"
    /\ boundary' = Snapshot(Seeded(urls_to_crawl), crawled_urls)
    /\ UNCHANGED <<crawled_urls, errors_404, stats, current_url, soup, fetcher, files,
                   restarts, site, processed>>

AtLoopTest == pc \in {"entry", "again"}

\* line 298, the loop condition is false: crawl_site returns
LoopExit ==
    /\ AtLoopTest
    /\ urls_to_crawl = <<>>
    /\ pc' = "done"
    /\ UNCHANGED <<memory, fetcher, files, restarts, boundary, site, processed>>

\* lines 299-302: pop the head; an already crawled key is dropped
PopDiscard ==
    /\ AtLoopTest
    /\ urls_to_crawl # <<>>
    /\ extract_unique_part(Head(urls_to_crawl)) \in crawled_urls
    /\ urls_to_crawl' = Tail(urls_to_crawl)
    /\ EndIteration(Tail(urls_to_crawl), crawled_urls)
    /\ UNCHANGED <<crawled_urls, errors_404, stats, fetcher, files, restarts, site, processed>>

\* PopDispatch without the test of lines 300-302
PopDispatch_NoVisitedTest ==
    /\ AtLoopTest
    /\ urls_to_crawl # <<>>
    /\ current_url' = Head(urls_to_crawl)
    /\ urls_to_crawl' = Tail(urls_to_crawl)
    /\ pc' = "fetch"
    /\ attempt' = 1
    /\ UNCHANGED <<crawled_urls, errors_404, stats, soup, outcome, backoff, slept, files,
                   restarts, boundary, site, processed>>

\* lines 299-305: pop the head and call fetch_page on it
PopDispatch ==
    /\ AtLoopTest
    /\ urls_to_crawl # <<>>
    /\ extract_unique_part(Head(urls_to_crawl)) \notin crawled_urls
    /\ current_url' = Head(urls_to_crawl)
    /\ urls_to_crawl' = Tail(urls_to_crawl)
    /\ pc' = "fetch"
    /\ attempt' = 1
    /\ UNCHANGED <<crawled_urls, errors_404, stats, soup, outcome, backoff, slept, files,
                   restarts, boundary, site, processed>>

\* one attempt of fetch_page, lines 118-121: the GET succeeds
AttemptSucceeds ==
    /\ pc = "fetch"
    /\ outcome' = Returned
    /\ pc' = "decide"
    /\ UNCHANGED <<memory, attempt, backoff, slept, files, restarts, boundary, site, processed>>

\* one attempt of fetch_page, lines 118-130: requests.get or raise_for_status raises e
AttemptRaises(e) ==
    /\ pc = "fetch"
    /\ outcome' = e
    /\ pc' = "decide"
    /\ UNCHANGED <<memory, attempt, backoff, slept, files, restarts, boundary, site, processed>>

\* line 122: the document doc is parsed from the response and returned to line 305
FetchReturnsDocument(doc) ==
    /\ pc = "decide"
    /\ outcome = Returned
    /\ soup' = doc
    /\ pc' = "process"
    /\ FetcherReturns
    /\ UNCHANGED <<urls_to_crawl, crawled_urls, errors_404, stats, current_url, files,
                   restarts, boundary, site, processed>>

\* the attempt got a 404 (lines 123-126), fetch_page returns None: lines 306-309
FetchNotFound ==
    /\ pc = "decide"
    /\ outcome # Returned
    /\ ReturnsNone(outcome)
    /\ errors_404' = Append(errors_404, current_url)
    /\ errors_file' = WrittenFile(Append(errors_404, current_url))
    /\ FetcherReturns
    /\ EndIteration(urls_to_crawl, crawled_urls)
    /\ UNCHANGED <<urls_to_crawl, crawled_urls, stats, state_file, stats_file,
                   dates_titles_file, restarts, site, processed>>

\* the attempt raised and tenacity retries: before_sleep hook, sleep, next attempt
FetchRetry ==
    /\ pc = "decide"
    /\ outcome # Returned
    /\ ~ReturnsNone(outcome)
    /\ retry_predicate(outcome)
    /\ ~stop_after_attempt(attempt)
    /\ backoff' = wait_exponential(attempt)
    /\ slept' = SleepBeforeRetry(outcome, attempt)
    /\ attempt' = attempt + 1
    /\ outcome' = NoOutcome
    /\ pc' = "fetch"
    /\ UNCHANGED <<memory, files, restarts, boundary, site, processed>>

\* FetchFail giving the URL up as a permanent failure instead of line 312
FetchFail_GivesUp ==
    /\ pc = "decide"
    /\ outcome # Returned
    /\ ~ReturnsNone(outcome)
    /\ ~retry_predicate(outcome) \/ stop_after_attempt(attempt)
    /\ errors_404' = Append(errors_404, current_url)
    /\ pc' = "fail_save_state"
    /\ FetcherReturns
    /\ UNCHANGED <<urls_to_crawl, crawled_urls, stats, current_url, soup, files, restarts,
                   boundary, site, processed>>

\* FetchFail without line 312: the popped URL is not put back
FetchFail_DropsUrl ==
    /\ pc = "decide"
    /\ outcome # Returned
    /\ ~ReturnsNone(outcome)
    /\ ~retry_predicate(outcome) \/ stop_after_attempt(attempt)
    /\ pc' = "fail_save_state"
    /\ FetcherReturns
    /\ UNCHANGED <<memory, files, restarts, boundary, site, processed>>

\* the attempt raised and fetch_page raises (the exception itself, or RetryError after
\* the last attempt): lines 310-312
FetchFail ==
    /\ pc = "decide"
    /\ outcome # Returned
    /\ ~ReturnsNone(outcome)
    /\ ~retry_predicate(outcome) \/ stop_after_attempt(attempt)
    /\ urls_to_crawl' = Append(urls_to_crawl, current_url)
    /\ pc' = "fail_save_state"
    /\ FetcherReturns
    /\ UNCHANGED <<crawled_urls, errors_404, stats, current_url, soup, files, restarts,
                   boundary, site, processed>>

\* lines 323-340 (save_to_files writes files that nothing reads back)
Process ==
    /\ pc = "process"
    /\ stats' = update_stats(stats, extract_posts(soup))
    /\ urls_to_crawl' = EnqueueLinks(urls_to_crawl, crawled_urls, extract_archive_links(soup))
    /\ crawled_urls' = crawled_urls \cup {extract_unique_part(current_url)}
    /\ pc' = "ok_save_state"
    /\ processed' = processed \cup {extract_unique_part(current_url)}
    /\ UNCHANGED <<errors_404, current_url, soup, fetcher, files, restarts, boundary, site>>

\* save_state(state): lines 313 and 341
SaveState ==
    /\ AtSaveState
    /\ state_file' = WrittenFile(StateJson(urls_to_crawl, crawled_urls, errors_404))
    /\ pc' = AfterSave(pc)
    /\ soup' = NoSoup
    /\ UNCHANGED <<urls_to_crawl, crawled_urls, errors_404, stats, current_url, fetcher,
                   stats_file, dates_titles_file, errors_file, restarts, boundary, site, processed>>

\* save_stats(stats): lines 314 and 342
SaveStats ==
    /\ AtSaveStats
    /\ stats_file' = WrittenFile(stats)
    /\ pc' = AfterSave(pc)
    /\ UNCHANGED <<memory, fetcher, state_file, dates_titles_file, errors_file, restarts,
                   boundary, site, processed>>

\* save_dates_titles(stats): lines 315 and 343; fromisoformat raises on a date that is
\* not ISO, leaving the file cut short and ending crawl_site with the ValueError
SaveDatesTitles ==
    /\ AtSaveDatesTitles
    /\ IF AllDatesParse(stats)
       THEN /\ dates_titles_file' = WrittenFile(DatesTitles(stats))
            /\ pc' = AfterSave(pc)
       ELSE /\ dates_titles_file' = TornFile(DatesTitles(stats))
            /\ pc' = "crashed"
    /\ UNCHANGED <<memory, fetcher, state_file, stats_file, errors_file, restarts,
                   boundary, site, processed>>

\* save_errors_404(state): lines 316 and 344, then the next iteration
SaveErrors404 ==
    /\ AtSaveErrors404
    /\ errors_file' = WrittenFile(errors_404)
    /\ EndIteration(urls_to_crawl, crawled_urls)
    /\ UNCHANGED <<urls_to_crawl, crawled_urls, errors_404, stats, fetcher, state_file,
                   stats_file, dates_titles_file, restarts, site, processed>>

\* the process is gone: nothing of its memory is left, crawl_site is started again
Stop ==
    /\ pc' = "start"
    /\ urls_to_crawl' = <<>>
    /\ crawled_urls' = {}
    /\ errors_404' = <<>>
    /\ stats' = EmptyStats
    /\ current_url' = NoUrl
    /\ soup' = NoSoup
    /\ FetcherReturns
    /\ boundary' = Snapshot(<<>>, {})

\* the process is stopped between two statements, or has ended, and is started again
KillRestart ==
    /\ pc # "start"
    /\ restarts < MaxRestarts
    /\ restarts' = restarts + 1
    /\ Stop
    /\ UNCHANGED <<files, site, processed>>

\* the process is stopped in save_state or save_stats after open(file, "w") emptied the
\* file and before json.dump has written all of it (lines 229-230, 245-246)
KillInDump ==
    /\ AtSaveState \/ AtSaveStats
    /\ restarts < MaxRestarts
    /\ restarts' = restarts + 1
    /\ IF AtSaveState
       THEN /\ state_file' = TornFile(state_file.content)
            /\ UNCHANGED stats_file
       ELSE /\ stats_file' = TornFile(stats_file.content)
            /\ UNCHANGED state_file
    /\ Stop
    /\ UNCHANGED <<dates_titles_file, errors_file, site, processed>>

Next ==
    \/ Load
    \/ Seed
    \/ LoopExit
    \/ PopDiscard
    \/ PopDispatch
    \/ AttemptSucceeds
    \/ \E e \in Failures : AttemptRaises(e)
    \/ \E doc \in Documents : FetchReturnsDocument(doc)
    \/ FetchNotFound
    \/ FetchRetry
    \/ FetchFail
    \/ Process
    \/ SaveState
    \/ SaveStats
    \/ SaveDatesTitles
    \/ SaveErrors404
    \/ KillRestart
    \/ KillInDump

Spec == Init /\ [][Next]_vars

----------------------------------------------------------------------------
(* Runs that are stopped and started again only between two loop iterations *)

\* the process is stopped at the loop test, or has returned, and is started again
StopAtBoundary ==
    /\ AtLoopTest \/ pc = "done"
    /\ restarts < MaxRestarts
    /\ restarts' = restarts + 1
    /\ Stop
    /\ UNCHANGED <<files, site, processed>>

NextBoundary ==
    \/ Load
    \/ Seed
    \/ LoopExit
    \/ PopDiscard
    \/ PopDispatch
    \/ AttemptSucceeds
    \/ \E e \in Failures : AttemptRaises(e)
    \/ \E doc \in Documents : FetchReturnsDocument(doc)
    \/ FetchNotFound
    \/ FetchRetry
    \/ FetchFail
    \/ Process
    \/ SaveState
    \/ SaveStats
    \/ SaveDatesTitles
    \/ SaveErrors404
    \/ StopAtBoundary

SpecBoundary == Init /\ [][NextBoundary]_vars

----------------------------------------------------------------------------
(* Claims about the frontier *)

Key(i) == extract_unique_part(urls_to_crawl[i])

\* C1: in every reachable state, urls_to_crawl holds no URL whose key
\* (extract_unique_part) is in crawled_urls.
C1_PendingNeverVisited ==
    \A i \in 1..Len(urls_to_crawl) : Key(i) \notin crawled_urls

\* C8: urls_to_crawl never holds two entries with the same key.
C8_NoDuplicatePending ==
    \A i, j \in 1..Len(urls_to_crawl) : i # j => Key(i) # Key(j)

\* C2: a URL that returned 404 is terminal: it is in errors_404 and in the
\* permanent-failure report exactly once, no step appends it to urls_to_crawl
\* again, and the step that records it leaves Stats alone.
C2_NotFoundIsTerminal ==
    /\ [](\A u \in Range(errors_404) : Count(u, errors_404) = 1)
    /\ [](\A u \in Range(errors_file.content) : Count(u, errors_file.content) = 1)
    /\ [][\A u \in Range(errors_404) :
              Count(u, urls_to_crawl') <= Count(u, urls_to_crawl)]_vars
    /\ [][Len(errors_404') > Len(errors_404) /\ errors_404 # <<>> => stats' = stats]_vars

\* C7: once a key is in crawled_urls, no operation (link enqueue, seeding,
\* re-enqueue on failure) appends a URL with that key to urls_to_crawl.
C7_VisitedNeverEnqueued ==
    [][\A u \in Urls :
          extract_unique_part(u) \in crawled_urls
              => Count(u, urls_to_crawl') <= Count(u, urls_to_crawl)]_vars

----------------------------------------------------------------------------
(* Claims about Stats *)

Conserved(st) ==
    /\ st.total_articles = SumOver(st.articles_per_year, DOMAIN st.articles_per_year)
    /\ st.total_articles = Len(st.articles)

\* C9: after update_stats, from empty Stats or Stats reloaded from the stats file,
\* total_articles = sum of articles_per_year = number of articles; the same holds of
\* what save_stats wrote.
C9_StatsConservation ==
    /\ Conserved(stats)
    /\ stats_file.status = "written" => Conserved(stats_file.content)

\* update_stats has run on Stats reloaded after a restart, with an undated post in them
C9_Witness ==
    /\ restarts > 0
    /\ pc = "ok_save_state"
    /\ stats.total_articles >= 2
    /\ Unknown \in DOMAIN stats.articles_per_year

----------------------------------------------------------------------------
(* Claims about stopping and resuming *)

\* the CrawlState crawl_site starts from (lines 293-296), given the files as they are
Resumed ==
    [urls_to_crawl |-> Seeded(load_state.urls_to_crawl),
     crawled_urls |-> load_state.crawled_urls]

\* a URL is popped and its iteration has not ended ("crashed": it ended crawl_site)
InIteration == pc \in {"fetch", "decide", "process", "crashed"} \cup OkPath \cup FailPath

\* the URLs that were pending at the last completed step, but for the in-flight one
PendingBehind ==
    IF InIteration THEN Tail(boundary.urls_to_crawl) ELSE boundary.urls_to_crawl

\* C10: wherever the process is stopped between two statements or file writes, a
\* restart finds a state file that load_state can read, and resumes with (a) every
\* key that was crawled at the last completed step, or saved since, still crawled and
\* (b) every URL that was pending and not crawled at the last completed step, and the
\* in-flight URL unless its key is saved as crawled, in urls_to_crawl.
C10_KillSafeResume ==
    /\ state_file.status # "torn"
    /\ boundary.crawled_urls \subseteq Resumed.crawled_urls
    /\ pc \in OkPath \ {"ok_save_state"} => crawled_urls \subseteq Resumed.crawled_urls
    /\ \A i \in 1..Len(PendingBehind) :
          extract_unique_part(PendingBehind[i]) \notin boundary.crawled_urls
              => PendingBehind[i] \in Range(Resumed.urls_to_crawl)
    /\ InIteration /\ extract_unique_part(current_url) \notin Resumed.crawled_urls
          => current_url \in Range(Resumed.urls_to_crawl)

\* C11: a state file that exists and does not parse ends crawl_site at load_state:
\* the process gets no further than the load (no seeding, no fetch, never an empty
\* state in its place), and no file is written while the state file is in that state.
C11_UnparsableStateIsFatal ==
    /\ [](state_file.status = "torn" => pc \in {"start", "aborted"})
    /\ [][pc = "start" /\ state_file.status = "torn" => pc' = "aborted"]_vars
    /\ [][state_file.status = "torn" => files' = files]_vars

\* crawl_site has ended at the load of a state file that does not parse
C11_Witness ==
    /\ pc = "aborted"
    /\ state_file.status = "torn"
    /\ state_file.content.crawled_urls # <<>>

\* C12: at every iteration boundary (after a success step, a fetch-failure step, a
\* not-found step or a discarding pop) the state file holds the CrawlState in memory.
C12_EveryIterationPersists ==
    pc = "again" =>
        /\ state_file.status = "written"
        /\ StateFromJson(state_file.content) =
               [urls_to_crawl |-> urls_to_crawl,
                crawled_urls |-> crawled_urls,
                errors_404 |-> errors_404]

----------------------------------------------------------------------------
(* Claims about fetch_page *)

\* the attempt that just ended raised something other than the 404 HTTPError
AttemptFailed == pc = "decide" /\ outcome # Returned /\ ~ReturnsNone(outcome)

\* the process goes on (it is not stopped in this step)
GoesOn == pc' # "start"

\* C4: after a failed attempt whose response carries Retry-After: N, another attempt
\* is made and exactly N seconds are slept before it.
C4_RetryAfterPrecedence ==
    [][AttemptFailed /\ GoesOn /\ attempt < 5 /\ outcome.response /\ outcome.retry_after
          => pc' = "fetch" /\ attempt' = attempt + 1 /\ slept' = RetryAfterSeconds]_vars

\* C5: every failed attempt k < 5 other than a 404 is followed by attempt k+1.
C5_EveryFailureRetried ==
    [][AttemptFailed /\ GoesOn /\ attempt < 5
          => pc' = "fetch" /\ attempt' = attempt + 1]_vars

\* C6: one fetch_page call makes at most 5 attempts, sleeps nothing before attempt 1,
\* computes a backoff in 30..300 that never decreases from one retry to the next, and
\* when the fifth attempt fails it raises, which crawl_site takes as a fetch failure
\* (the except branch, which puts the URL back).
C6_BoundedRetry ==
    /\ [](attempt <= 5)
    /\ [](attempt = 1 => slept = 0 /\ backoff = 0)
    /\ [](attempt > 1 => backoff >= 30 /\ backoff <= 300 /\ slept >= backoff)
    /\ [][attempt > 1 /\ attempt' = attempt + 1 => backoff' >= backoff]_vars
    /\ [][AttemptFailed /\ GoesOn /\ attempt = 5
              => /\ pc' = "fail_save_state"
                 /\ urls_to_crawl' = Append(urls_to_crawl, current_url)]_vars

\* the fifth attempt of a call has failed, after four retries
C6_Witness ==
    /\ AttemptFailed
    /\ attempt = 5
    /\ backoff > 30

----------------------------------------------------------------------------
(* Claims about the loop *)

\* C14: within a run and across restarts between iterations, a popped URL whose key
\* is in crawled_urls is dropped and not fetched, and no key ever gets a second
\* success step.
C14_NoPageProcessedTwice ==
    /\ [][AtLoopTest /\ pc' = "fetch"
              => extract_unique_part(current_url') \notin crawled_urls]_vars
    /\ [][AtLoopTest /\ urls_to_crawl # <<>> /\ Key(1) \in crawled_urls /\ GoesOn
              => pc' = "again" /\ urls_to_crawl' = Tail(urls_to_crawl)]_vars
    /\ [][pc = "process" /\ pc' = "ok_save_state"
              => extract_unique_part(current_url) \notin processed]_vars

\* after a restart, two pending URLs share a key that has had its success step
C14_Witness ==
    /\ restarts > 0
    /\ AtLoopTest
    /\ Len(urls_to_crawl) >= 2
    /\ Key(1) = Key(2)
    /\ Key(1) \in processed

\* C15: when fetch_page raises, the popped URL is appended once at the tail of
\* urls_to_crawl, crawled_urls, errors_404 and Stats stay as they are, and the state
\* file and the stats file hold the state and the Stats in memory when the next
\* iteration starts.
C15_FetchFailureStep ==
    /\ [][AttemptFailed /\ GoesOn /\ pc' # "fetch"
              => /\ pc' = "fail_save_state"
                 /\ urls_to_crawl' = Append(urls_to_crawl, current_url)
                 /\ (UNCHANGED <<crawled_urls, errors_404, stats>>)]_vars
    /\ [][GoesOn /\ pc \in FailPath
              => (UNCHANGED <<urls_to_crawl, crawled_urls, errors_404, stats>>)]_vars
    /\ [][pc' = "again" /\ pc \in FailPath
              => /\ state_file' = WrittenFile(StateJson(urls_to_crawl', crawled_urls',
                                                        errors_404'))
                 /\ stats_file' = WrittenFile(stats')]_vars

\* a fetch failure has put the popped URL behind another pending URL, with posts in
\* the Stats, and the step is at its last persist call
C15_Witness ==
    /\ pc = "fail_save_errors_404"
    /\ Len(urls_to_crawl) >= 2
    /\ urls_to_crawl[Len(urls_to_crawl)] = current_url
    /\ urls_to_crawl[1] # current_url
    /\ stats.total_articles > 0

\* s is the beginning of t
IsPrefix(s, t) == Len(s) <= Len(t) /\ SubSeq(t, 1, Len(s)) = s

RECURSIVE IsSubsequence(_, _)
\* the elements of s occur in t in the order of s
IsSubsequence(s, t) ==
    IF s = <<>> THEN TRUE
    ELSE IF t = <<>> THEN FALSE
    ELSE IF Head(s) = Head(t) THEN IsSubsequence(Tail(s), Tail(t))
    ELSE IsSubsequence(s, Tail(t))

\* what a step has appended to urls_to_crawl
Appended == SubSeq(urls_to_crawl', Len(urls_to_crawl) + 1, Len(urls_to_crawl'))

\* C18: the loop pops the head of urls_to_crawl and everything else appends at its
\* tail: a dispatched URL is the oldest pending one, the links of a page go behind
\* what is pending in the order they were extracted, and a URL put back after a fetch
\* failure goes behind every URL pending at that moment.
C18_FifoDispatch ==
    /\ [][AtLoopTest /\ GoesOn /\ urls_to_crawl # <<>>
              => /\ urls_to_crawl' = Tail(urls_to_crawl)
                 /\ pc' = "fetch" => current_url' = Head(urls_to_crawl)]_vars
    /\ [][~AtLoopTest /\ GoesOn /\ pc \notin {"start", "seed"}
              => IsPrefix(urls_to_crawl, urls_to_crawl')]_vars
    /\ [][pc = "process" /\ GoesOn
              => IsSubsequence(Appended, extract_archive_links(soup))]_vars
    /\ [][AttemptFailed /\ pc' = "fail_save_state" => Appended = <<current_url>>]_vars

\* a success step has appended the two different links of its page, in page order
C18_Witness ==
    /\ pc = "ok_save_state"
    /\ Len(urls_to_crawl) = 2
    /\ urls_to_crawl = extract_archive_links(soup)
    /\ urls_to_crawl[1] # urls_to_crawl[2]

----------------------------------------------------------------------------
(* crawl_site called again after it has returned *)

\* crawl_site has returned with the start URL crawled; a new process calls it again
Rerun ==
    /\ pc = "done"
    /\ extract_unique_part(start_url) \in crawled_urls
    /\ restarts < MaxRestarts
    /\ restarts' = restarts + 1
    /\ Stop
    /\ UNCHANGED <<files, site, processed>>

NextRerun ==
    \/ Load
    \/ Seed
    \/ LoopExit
    \/ PopDiscard
    \/ PopDispatch
    \/ AttemptSucceeds
    \/ \E e \in Failures : AttemptRaises(e)
    \/ \E doc \in Documents : FetchReturnsDocument(doc)
    \/ FetchNotFound
    \/ FetchRetry
    \/ FetchFail
    \/ Process
    \/ SaveState
    \/ SaveStats
    \/ SaveDatesTitles
    \/ SaveErrors404
    \/ Rerun

\* a sequential program: whatever step is next is taken
SpecRerun == Init /\ [][NextRerun]_vars /\ WF_vars(NextRerun)

\* C19: a crawl_site run after a run that returned with the start URL crawled issues
\* no fetch, keeps Stats, crawled_urls and errors_404 as loaded, and returns.
C19_RerunIsNoOp ==
    /\ [](restarts > 0 => pc \in {"start", "seed", "entry", "again", "done"})
    /\ [](restarts > 0 /\ pc \in {"entry", "again", "done"}
              => /\ stats = load_stats
                 /\ crawled_urls = load_state.crawled_urls
                 /\ errors_404 = load_state.errors_404)
    /\ [](restarts > 0 => <>(pc = "done"))

----------------------------------------------------------------------------
(* Runs against a fixed site, one loop iteration per process *)

\* documents on which save_dates_titles does not raise
DatedDocuments ==
    {d \in Documents : \A i \in 1..Len(d.posts) : IsIsoFormat(d.posts[i].date)}

\* a site answers every fetch_page(url) call the same way: a document or a 404
Pages == {[kind |-> "notfound", doc |-> NoSoup]}
         \cup {[kind |-> "document", doc |-> d] : d \in DatedDocuments}

Sites == [Urls -> Pages]

InitResume ==
    /\ pc = "start"
    /\ ClearedMemory
    /\ IdleFetcher
    /\ NoFiles
    /\ restarts = 0
    /\ boundary = Snapshot(<<>>, {})
    /\ site \in Sites
    /\ processed = {}

\* the process is stopped when an iteration has ended and the loop would go on
StopAfterIteration ==
    /\ pc = "again"
    /\ urls_to_crawl # <<>>
    /\ Stop
    /\ UNCHANGED <<files, restarts, site, processed>>

SiteAttemptSucceeds ==
    /\ pc = "fetch"
    /\ site[current_url].kind = "document"
    /\ AttemptSucceeds

SiteAttemptNotFound ==
    /\ pc = "fetch"
    /\ site[current_url].kind = "notfound"
    /\ AttemptRaises(Exc("HTTPError", HTTP_NOT_FOUND, TRUE, FALSE))

SiteReturnsDocument ==
    /\ pc = "decide"
    /\ FetchReturnsDocument(site[current_url].doc)

FirstPopDiscard == pc = "entry" /\ PopDiscard

FirstPopDispatch == pc = "entry" /\ PopDispatch

NextResume ==
    \/ Load
    \/ Seed
    \/ LoopExit
    \/ FirstPopDiscard
    \/ FirstPopDispatch
    \/ SiteAttemptSucceeds
    \/ SiteAttemptNotFound
    \/ SiteReturnsDocument
    \/ FetchNotFound
    \/ Process
    \/ SaveState
    \/ SaveStats
    \/ SaveDatesTitles
    \/ SaveErrors404
    \/ StopAfterIteration

\* a sequential program: whatever step is next is taken
SpecResume == InitResume /\ [][NextResume]_vars /\ WF_vars(NextResume)

----------------------------------------------------------------------------
(* Runs against a fixed site whose pages may be undated or always fail *)

\* a page is a 404, a document (its posts dated or not), or a URL on which every
\* requests.get raises ConnectionError
AnyPages == {[kind |-> "notfound", doc |-> NoSoup], [kind |-> "fails", doc |-> NoSoup]}
            \cup {[kind |-> "document", doc |-> d] : d \in Documents}

AnySites == [Urls -> AnyPages]

InitSite ==
    /\ pc = "start"
    /\ ClearedMemory
    /\ IdleFetcher
    /\ NoFiles
    /\ restarts = 0
    /\ boundary = Snapshot(<<>>, {})
    /\ site \in AnySites
    /\ processed = {}

SiteAttemptFails ==
    /\ pc = "fetch"
    /\ site[current_url].kind = "fails"
    /\ AttemptRaises(Exc("ConnectionError", 0, FALSE, FALSE))

\* crawl_site on a fixed site, the process never stopped
NextSite ==
    \/ Load
    \/ Seed
    \/ LoopExit
    \/ PopDiscard
    \/ PopDispatch
    \/ SiteAttemptSucceeds
    \/ SiteAttemptNotFound
    \/ SiteAttemptFails
    \/ SiteReturnsDocument
    \/ FetchNotFound
    \/ FetchRetry
    \/ FetchFail
    \/ Process
    \/ SaveState
    \/ SaveStats
    \/ SaveDatesTitles
    \/ SaveErrors404

\* a sequential program: whatever step is next is taken
SpecSite == InitSite /\ [][NextSite]_vars /\ WF_vars(NextSite)

\* crawl_site on a fixed site, the process stopped anywhere and started again
NextSiteKill ==
    \/ NextSite
    \/ KillRestart
    \/ KillInDump

SpecSiteKill == InitSite /\ [][NextSiteKill]_vars

RECURSIVE OnePass(_, _, _, _)
\* the Stats crawl_site ends with when it runs lines 298-344 on site s to the end
OnePass(s, pending, crawled, st) ==
    IF pending = <<>> THEN st
    ELSE LET url == Head(pending)
             unique_part == extract_unique_part(url)
         IN  IF unique_part \in crawled \/ s[url].kind = "notfound"
             THEN OnePass(s, Tail(pending), crawled, st)
             ELSE OnePass(s,
                          EnqueueLinks(Tail(pending), crawled,
                                       extract_archive_links(s[url].doc)),
                          crawled \cup {unique_part},
                          update_stats(st, extract_posts(s[url].doc)))

\* crawl_site(start_url) on site s with no files, in one pass
OnePassStats(s) == OnePass(s, Seeded(<<>>), {}, EmptyStats)

BagOf(seq) == [x \in Range(seq) |-> Count(x, seq)]

SameStats(a, b) ==
    /\ a.articles_per_year = b.articles_per_year
    /\ a.total_articles = b.total_articles
    /\ BagOf(a.articles) = BagOf(b.articles)

RECURSIVE StatsOfPages(_, _)
\* the Stats that hold the posts of each page of urls on site s once
StatsOfPages(s, urls) ==
    IF urls = <<>> THEN EmptyStats
    ELSE update_stats(StatsOfPages(s, Tail(urls)), extract_posts(s[Head(urls)].doc))

\* the URLs that the state file records as crawled (each key is of one URL)
CrawledPages == {u \in Urls : extract_unique_part(u) \in load_state.crawled_urls}

\* C13: wherever the process was stopped and started again, when crawl_site has
\* returned the stats file holds the posts of every page recorded as crawled once.
C13_ExactlyOnceStats ==
    pc = "done" => SameStats(load_stats, StatsOfPages(site, SetToList(CrawledPages)))

\* every fetch_page call on the site returns a document or None
NoFailingPage == \A u \in Urls : site[u].kind # "fails"

\* C16: on a site where every fetch_page call returns a document or a 404, crawl_site
\* reaches an empty urls_to_crawl and returns.
C16_Termination == NoFailingPage => <>(pc = "done")

\* every fetch_page(u) call raises
Failing(u) == site[u].kind = "fails"

\* save_dates_titles raises on no page of the site
DatedSite == \A u \in Urls : site[u].kind = "document" => site[u].doc \in DatedDocuments

C3_CrashResumeEquivalence ==
    <>(pc = "done" /\ SameStats(stats, OnePassStats(site)))

====
